---- MODULE Spec2Model ----
(***************************************************************************)
(* The checkpointed, resumable campaign workflow of uniques-campaign-runner *)
(* (src/src/workflow/workflow.js, context.js, metadata.js, utils/csv).      *)
(* One operating-system process at a time runs runWorkflow; the checkpoint  *)
(* files and the ledger outlive the process, the context object does not.   *)
(***************************************************************************)
EXTENDS Integers, Sequences, FiniteSets, TLC

(* ------------------------------ bounds --------------------------------- *)
MaxRows == 3
MaxBatchSize == 2
MaxFund == 2
MaxDeposit == 2
MaxRuns == 3
MaxTableRows == 2
MaxCsvRows == 2
MaxFieldLen == 2
MaxBatches == 5

(* ------------------------- program constants --------------------------- *)
DefaultBatchSize == 100
StartInstanceId == 0

(* --------------------------- field values ------------------------------ *)
(* A JavaScript value held in a table cell or a record field:              *)
(*   undef      undefined                                                  *)
(*   num  v     the number v                                               *)
(*   digits v   the string of decimal digits of v (what a number becomes   *)
(*              once it was written to a checkpoint and parsed back)       *)
(*   txt  v     any other string; txt 0 is the empty string                *)
Undef == [t |-> "undef", v |-> 0]
Num(n) == [t |-> "num", v |-> n]
Digits(n) == [t |-> "digits", v |-> n]
Txt(n) == [t |-> "txt", v |-> n]
EmptyStr == Txt(0)

Truthy(c) ==
  \/ c.t = "num" /\ c.v # 0
  \/ c.t = "digits"
  \/ c.t = "txt" /\ c.v # 0

\* Array.prototype.join / toString of one field, as writeCsvSync stores it
ToCsv(c) ==
  CASE c.t = "undef" -> EmptyStr
    [] c.t = "num" -> Digits(c.v)
    [] OTHER -> c

\* parseInt of a string read back from a checkpoint
ParseInt(c) == c.v

isNumber(c) == c.t = "num"

Min(a, b) == IF a < b THEN a ELSE b

\* arr[i] of a JavaScript array (0-based), undefined outside the array
At(arr, i) == IF i >= 0 /\ i < Len(arr) THEN arr[i + 1] ELSE Undef

Range(lo, hi) == lo..hi - 1

(* ---------------------------- column titles ---------------------------- *)
columnTitles == <<"secret", "address", "imageCid", "metaCid", "instanceId">>
Cols == {columnTitles[i] : i \in 1..Len(columnTitles)}

EmptyRow == [c \in Cols |-> Undef]

NoTable == [exists |-> FALSE, header |-> {}, rows |-> <<>>]
NoClassFile == [exists |-> FALSE, id |-> EmptyStr, metaCid |-> EmptyStr]
NoBatchFile == [exists |-> FALSE, mint |-> EmptyStr, meta |-> EmptyStr, funds |-> EmptyStr]

\* context.class / context.batch / context.data as the module creates them
InitClass == [id |-> Undef, metaCid |-> Undef]
InitBatch == [lastMintBatch |-> 0, lastMetadataBatch |-> 0, lastBalanceTxBatch |-> 0]
InitData == [header |-> {}, records |-> <<>>, startRecordNo |-> 0, endRecordNo |-> 0]

BatchKinds == {"mint", "setMeta", "transfer"}
Submissions == {"create", "setClassMeta", "mint", "setMeta", "transfer"}

VARIABLES
  cfg,          \* the parsed workflow.json (fixed between invocations)
  env,          \* the ledger's minimum deposit and the image files on disk
  ledgerClass,  \* TRUE iff the configured class id exists on the ledger
  cpClass,      \* .checkpoint/.class.cp
  cpBatch,      \* .checkpoint/.batch.cp
  cpData,       \* .checkpoint/.data.cp
  outFile,      \* TRUE once the final table was copied to the output path
  ctxClass,     \* context.class
  ctxBatch,     \* context.batch
  ctxData,      \* context.data
  pc,           \* position of the running process; "idle" when none runs
  dryRunMode,   \* the --dry-run option of this invocation
  lastBatch,    \* the local counter of the batched step that is running
  rowNo,        \* the loop index of pinAndSetImageCid
  inflight,     \* the external calls issued and not yet answered
  outcome,      \* how the last invocation ended
  runNo,        \* invocations started so far
  calls,        \* external calls issued by this invocation, in order
  hist,         \* bookkeeping for the properties (not program state)
  table,        \* a DataTable with its header and rows in column order, and
                \* the last getColumns / setColumns call made on it
  csvIo         \* a table given to writeCsvSync, the file, and what
                \* readCsvSync made of the file

vars == <<cfg, env, ledgerClass, cpClass, cpBatch, cpData, outFile, ctxClass,
          ctxBatch, ctxData, pc, dryRunMode, lastBatch, rowNo, inflight,
          outcome, runNo, calls, hist, table, csvIo>>

fileVars == <<cpClass, cpBatch, cpData, outFile>>
ctxVars == <<ctxClass, ctxBatch, ctxData>>
\* what no step of the pipeline writes: the configuration, the environment,
\* and the table and the file that are exercised on their own
constVars == <<cfg, env, table, csvIo>>
pipelineVars == <<cfg, env, ledgerClass, cpClass, cpBatch, cpData, outFile, ctxClass,
                  ctxBatch, ctxData, pc, dryRunMode, lastBatch, rowNo, inflight,
                  outcome, runNo, calls, hist>>

(* ------------------------- configuration ------------------------------- *)
\* instance.data.offset / count and instance.batchSize: 0 stands for a value
\* that is absent or that parseInt turns into NaN or 0 (all falsy).
\* class.id is a JSON number or a JSON string; instance.initialFund is a
\* JSON number, -1 standing for "not set".
ClassIds == {Num(7), Digits(7)}
Funds == -1..MaxFund

SourceTable(n) == [exists |-> TRUE, header |-> {}, rows |-> [i \in 1..n |-> EmptyRow]]

Config(offset, count, size, id, classMeta, instMeta, fund) ==
  [offset |-> offset, count |-> count, batchSize |-> size, classId |-> id,
   classMeta |-> classMeta, instMeta |-> instMeta, fund |-> fund]

Env(deposit, n, missing) ==
  [deposit |-> deposit, src |-> SourceTable(n), missing |-> missing]

Input(c, e, exists) == [cfg |-> c, env |-> e, ledgerClass |-> exists]

\* every row range and batch size, on a ledger without the class
RangeInputs ==
  {Input(Config(o, c, b, Digits(7), TRUE, m, MaxFund), Env(1, n, {}), FALSE) :
     o \in 0..MaxRows, c \in 0..MaxRows, b \in 0..MaxBatchSize, n \in 0..MaxRows,
     m \in BOOLEAN}

\* every class id (a JSON number or a JSON string), with and without class
\* metadata, on a ledger with and without the class
ClassInputs ==
  {Input(Config(0, 0, b, id, cm, m, f), Env(1, MaxRows, {}), e) :
     b \in {0, 1}, id \in ClassIds, cm \in BOOLEAN, m \in BOOLEAN,
     f \in {-1, MaxFund}, e \in BOOLEAN}

\* every fund amount and minimum deposit, with at most one image file
\* missing, the row range being the whole table or all but its last row
ValidateInputs ==
  {Input(Config(0, c, 0, Digits(7), TRUE, m, f), Env(d, MaxRows, x), FALSE) :
     c \in {0, MaxRows - 1}, m \in BOOLEAN, f \in Funds, d \in 1..MaxDeposit,
     x \in {{}} \cup {{i} : i \in 0..MaxRows - 1}}

Inputs == RangeInputs \cup ClassInputs \cup ValidateInputs

HistInit ==
  [ckptDone |-> [k \in BatchKinds |-> {}],
   batchAtStart |-> NoBatchFile,
   cpAtStart |-> [class |-> FALSE, batch |-> FALSE, data |-> FALSE],
   classAtStart |-> NoClassFile,
   stepsDone |-> FALSE,
   resumedDone |-> FALSE,
   finalized |-> FALSE,
   afterFinalized |-> FALSE,
   failedAt |-> "none",
   rangeAtLoad |-> [startRecordNo |-> 0, endRecordNo |-> 0],
   mintedAs |-> {},
   mintedFor |-> {},
   metaSetFor |-> {}]

\* context.data as the module creates it (context.js lines 101-105), no call
\* made on it
NoCallYet ==
  [header |-> <<>>, records |-> <<>>, loaded |-> [header |-> <<>>, records |-> <<>>],
   before |-> [header |-> <<>>, records |-> <<>>], op |-> "none", columns |-> <<>>,
   titles |-> <<>>, returned |-> <<>>, threw |-> "none"]

\* nothing written, nothing read
NoCsvIo ==
  [header |-> <<>>, records |-> <<>>, file |-> <<>>, phase |-> "none",
   threw |-> "none", loaded |-> [header |-> <<>>, records |-> <<>>]]

\* no process runs and no checkpoint exists
pipelineIdle(in) ==
  /\ cfg = in.cfg
  /\ env = in.env
  /\ ledgerClass = in.ledgerClass
  /\ cpClass = NoClassFile
  /\ cpBatch = NoBatchFile
  /\ cpData = NoTable
  /\ outFile = FALSE
  /\ ctxClass = InitClass
  /\ ctxBatch = InitBatch
  /\ ctxData = InitData
  /\ pc = "idle"
  /\ dryRunMode = FALSE
  /\ lastBatch = 0
  /\ rowNo = 0
  /\ inflight = {}
  /\ outcome = "none"
  /\ runNo = 0
  /\ calls = <<>>
  /\ hist = HistInit

Init ==
  /\ \E in \in Inputs : pipelineIdle(in)
  /\ table = NoCallYet
  /\ csvIo = NoCsvIo

(* --------------------------- process frame ----------------------------- *)
\* a thrown error leaves the step; index.js reports it and exits with 1
Throw(kind) ==
  /\ pc' = "exit"
  /\ outcome' = kind
  /\ hist' = [hist EXCEPT !.failedAt = pc]

\* index.js: the command line starts runWorkflow in a fresh process
StartRun ==
  /\ pc = "idle"
  /\ runNo < MaxRuns
  /\ \E d \in BOOLEAN : dryRunMode' = d
  /\ pc' = "checkPrev"
  /\ runNo' = runNo + 1
  /\ outcome' = "none"
  /\ calls' = <<>>
  /\ hist' = [hist EXCEPT
       !.cpAtStart = [class |-> cpClass.exists, batch |-> cpBatch.exists,
                      data |-> cpData.exists],
       !.classAtStart = cpClass,
       !.batchAtStart = cpBatch,
       !.resumedDone = hist.stepsDone,
       !.afterFinalized = hist.finalized,
       !.failedAt = "none"]
  /\ UNCHANGED <<constVars, ledgerClass, fileVars, ctxVars, lastBatch, rowNo, inflight>>

\* the bookkeeping of one invocation is dropped when its process is gone
runEnded(h) ==
  [h EXCEPT !.batchAtStart = NoBatchFile,
            !.resumedDone = FALSE,
            !.afterFinalized = FALSE,
            !.cpAtStart = [class |-> FALSE, batch |-> FALSE, data |-> FALSE],
            !.classAtStart = NoClassFile,
            !.failedAt = "none",
            !.rangeAtLoad = [startRecordNo |-> 0, endRecordNo |-> 0]]

\* index.js: process.exit; the context object dies with the process
ProcessExit ==
  /\ pc = "exit"
  /\ pc' = "idle"
  /\ ctxClass' = InitClass
  /\ ctxBatch' = InitBatch
  /\ ctxData' = InitData
  /\ lastBatch' = 0
  /\ rowNo' = 0
  /\ dryRunMode' = FALSE
  /\ calls' = <<>>
  /\ hist' = runEnded(hist)
  /\ UNCHANGED <<constVars, ledgerClass, fileVars, inflight, outcome, runNo>>

\* runWorkflow line 473: the checkpoints of an earlier invocation are kept
checkPreviousCheckpoints ==
  /\ pc = "checkPrev"
  /\ pc' = "load"
  /\ UNCHANGED <<constVars, ledgerClass, fileVars, ctxVars, dryRunMode, lastBatch,
                 rowNo, inflight, outcome, runNo, calls, hist>>

(* ------------------------------ context -------------------------------- *)
\* writeCsvSync followed by readCsvSync of a table: every field of a column
\* of the header comes back as the string it was written as
CsvTable(header, records) ==
  [exists |-> TRUE, header |-> header,
   rows |-> [i \in 1..Len(records) |->
              [c \in Cols |-> IF c \in header THEN ToCsv(records[i][c]) ELSE Undef]]]

\* a class.load that ignores the class record
classLoadNothing(file) == InitClass

classLoad(file) ==
  IF file.exists
  THEN [id |-> IF Truthy(file.id) THEN file.id ELSE Undef,
        metaCid |-> IF Truthy(file.metaCid) THEN file.metaCid ELSE Undef]
  ELSE InitClass

classCheckpoint(c) == [exists |-> TRUE, id |-> ToCsv(c.id), metaCid |-> ToCsv(c.metaCid)]

\* a batch.load that ignores the batch record
batchLoadFresh(file) == InitBatch

batchLoad(file) ==
  IF file.exists
  THEN [lastMintBatch |-> IF Truthy(file.mint) THEN ParseInt(file.mint) ELSE 0,
        lastMetadataBatch |-> IF Truthy(file.meta) THEN ParseInt(file.meta) ELSE 0,
        lastBalanceTxBatch |-> IF Truthy(file.funds) THEN ParseInt(file.funds) ELSE 0]
  ELSE InitBatch

batchCheckpoint(b) ==
  [exists |-> TRUE, mint |-> ToCsv(Num(b.lastMintBatch)),
   meta |-> ToCsv(Num(b.lastMetadataBatch)),
   funds |-> ToCsv(Num(b.lastBalanceTxBatch))]

\* context.data.load: the row range from the configured offset and count
dataLoad(file) ==
  LET instanceOffset == IF cfg.offset # 0 THEN cfg.offset - 1 ELSE 0
      instanceCount == IF cfg.count # 0 THEN cfg.count
                       ELSE Len(file.rows) - instanceOffset + 1
  IN [header |-> file.header, records |-> file.rows,
      startRecordNo |-> instanceOffset,
      endRecordNo |-> Min(instanceOffset + instanceCount, Len(file.rows))]

dataCheckpoint(d) == CsvTable(d.header, d.records)

\* context.data.load lines 146-149
dataFileAtLoad == IF cpData.exists THEN cpData ELSE env.src

\* context.load
loadContext ==
  /\ pc = "load"
  /\ ctxClass' = classLoad(cpClass)
  /\ ctxBatch' = batchLoad(cpBatch)
  /\ cpData' = dataFileAtLoad
  /\ ctxData' = dataLoad(dataFileAtLoad)
  /\ pc' = "verify"
  /\ hist' = [hist EXCEPT !.rangeAtLoad =
                [startRecordNo |-> ctxData'.startRecordNo,
                 endRecordNo |-> ctxData'.endRecordNo]]
  /\ UNCHANGED <<constVars, ledgerClass, cpClass, cpBatch, outFile, dryRunMode,
                 lastBatch, rowNo, inflight, outcome, runNo, calls>>

(* ------------------------------ Validate ------------------------------- *)
\* a check that also rejects an amount equal to the minimum deposit
fundNotAbove == cfg.fund # -1 /\ cfg.fund # 0 /\ env.deposit >= cfg.fund

fundTooLow == cfg.fund # -1 /\ cfg.fund # 0 /\ env.deposit > cfg.fund

\* a check that looks at the image of the first row of the range only
imageMissingFirstRow(d) ==
  /\ cfg.instMeta
  /\ d.startRecordNo < d.endRecordNo
  /\ d.startRecordNo \in env.missing

imageMissing(d) ==
  /\ cfg.instMeta
  /\ \E i \in Range(d.startRecordNo, d.endRecordNo) :
       i >= 0 /\ i < Len(d.records) /\ i \in env.missing

\* a runWorkflow that goes on to the steps in a dry run
dryRunIgnored == FALSE

\* runWorkflow lines 480-487: a dry run ends after the checks
dryRunReturns == dryRunMode

\* verifyWorkflow, then the dry-run return of runWorkflow (lines 478-487)
verifyWorkflow ==
  /\ pc = "verify"
  /\ IF fundTooLow \/ imageMissing(ctxData)
     THEN Throw("WorkflowError")
     ELSE /\ IF dryRunReturns
             THEN pc' = "exit" /\ outcome' = "ok"
             ELSE pc' = "createClass" /\ outcome' = outcome
          /\ hist' = hist
  /\ UNCHANGED <<constVars, ledgerClass, fileVars, ctxVars, dryRunMode, lastBatch,
                 rowNo, inflight, runNo, calls>>

(* --------------------------- external calls ---------------------------- *)
\* id is the start instance id that a mint call is given, 0 in other calls
Call(kind, idx, lo, hi) ==
  [kind |-> kind, idx |-> idx, lo |-> lo, hi |-> hi, id |-> 0]

\* an external call is issued and the caller awaits its answer
Issue(c) ==
  /\ inflight' = inflight \cup {c}
  /\ calls' = Append(calls, c)

\* context.dryRun is never set: enableDryRun is commented out in runWorkflow
ctxDryRun == FALSE

(* ----------------------------- createClass ----------------------------- *)
classIsCheckpointed == ctxClass.id # Undef /\ cfg.classId = ctxClass.id

createClass ==
  /\ pc = "createClass"
  /\ IF ~classIsCheckpointed
     THEN /\ Issue(Call("query", 0, 0, 0))
          /\ pc' = "cc_query"
     ELSE /\ pc' = "setClassMetadata"
          /\ UNCHANGED <<inflight, calls>>
  /\ UNCHANGED <<constVars, ledgerClass, fileVars, ctxVars, dryRunMode, lastBatch,
                 rowNo, outcome, runNo, hist>>

\* api.query.uniques.class answered (lines 36-37, 56-61)
createClassQueried ==
  /\ pc = "cc_query"
  /\ \E ok \in BOOLEAN :
       IF ~ok
       THEN /\ Throw("Error")
            /\ inflight' = {}
            /\ UNCHANGED <<ctxClass, calls>>
       ELSE IF ledgerClass
       THEN /\ pc' = "cc_prompt"
            /\ inflight' = {}
            /\ UNCHANGED <<ctxClass, calls, outcome, hist>>
       ELSE /\ ctxClass' = [ctxClass EXCEPT !.id = cfg.classId]
            /\ inflight' = {Call("create", 0, 0, 0)}
            /\ calls' = Append(calls, Call("create", 0, 0, 0))
            /\ pc' = "cc_create"
            /\ UNCHANGED <<outcome, hist>>
  /\ UNCHANGED <<constVars, ledgerClass, fileVars, ctxBatch, ctxData, dryRunMode,
                 lastBatch, rowNo, runNo>>

\* the appendToClass prompt answered (lines 39-53, 64)
createClassAnswered ==
  /\ pc = "cc_prompt"
  /\ \E appendToClass \in BOOLEAN :
       IF ~appendToClass
       THEN /\ Throw("WorkflowError")
            /\ UNCHANGED <<ctxClass, cpClass>>
       ELSE /\ ctxClass' = [ctxClass EXCEPT !.id = cfg.classId]
            /\ cpClass' = IF ~ctxDryRun THEN classCheckpoint(ctxClass') ELSE cpClass
            /\ pc' = "setClassMetadata"
            /\ UNCHANGED <<outcome, hist>>
  /\ UNCHANGED <<constVars, ledgerClass, cpBatch, cpData, outFile, ctxBatch, ctxData,
                 dryRunMode, lastBatch, rowNo, inflight, runNo, calls>>

\* a createClass that writes the class record although uniques.create failed
createClassSentRecorded ==
  /\ pc = "cc_create"
  /\ \E ok \in BOOLEAN :
       /\ IF ~ok
          THEN Throw("Error") /\ UNCHANGED ledgerClass
          ELSE /\ ledgerClass' = TRUE
               /\ pc' = "setClassMetadata"
               /\ UNCHANGED <<outcome, hist>>
       /\ cpClass' = classCheckpoint(ctxClass)
  /\ inflight' = {}
  /\ UNCHANGED <<constVars, cpBatch, cpData, outFile, ctxVars, dryRunMode, lastBatch,
                 rowNo, runNo, calls>>

\* signAndSendTx of uniques.create answered (lines 61-64)
createClassSent ==
  /\ pc = "cc_create"
  /\ \E ok \in BOOLEAN :
       IF ~ok
       THEN /\ Throw("Error")
            /\ UNCHANGED <<ledgerClass, cpClass>>
       ELSE /\ ledgerClass' = TRUE
            /\ cpClass' = IF ~ctxDryRun THEN classCheckpoint(ctxClass) ELSE cpClass
            /\ pc' = "setClassMetadata"
            /\ UNCHANGED <<outcome, hist>>
  /\ inflight' = {}
  /\ UNCHANGED <<constVars, cpBatch, cpData, outFile, ctxVars, dryRunMode, lastBatch,
                 rowNo, runNo, calls>>

(* --------------------------- setClassMetadata -------------------------- *)
ClassMetaCid == Txt(1)

setClassMetadata ==
  /\ pc = "setClassMetadata"
  /\ IF ctxClass.id = Undef
     THEN /\ Throw("WorkflowError")
          /\ UNCHANGED <<inflight, calls>>
     ELSE IF Truthy(ctxClass.metaCid)
     THEN /\ pc' = "secrets"
          /\ UNCHANGED <<inflight, calls, outcome, hist>>
     ELSE IF ~cfg.classMeta
     THEN /\ pc' = "cm_prompt"
          /\ UNCHANGED <<inflight, calls, outcome, hist>>
     ELSE /\ Issue(Call("pin", -1, 0, 0))
          /\ pc' = "cm_pin"
          /\ UNCHANGED <<outcome, hist>>
  /\ UNCHANGED <<constVars, ledgerClass, fileVars, ctxVars, dryRunMode, lastBatch,
                 rowNo, runNo>>

\* the withoutMetadata prompt answered (lines 84-96)
setClassMetadataAnswered ==
  /\ pc = "cm_prompt"
  /\ \E withoutMetadata \in BOOLEAN :
       IF ~withoutMetadata
       THEN Throw("WorkflowError")
       ELSE pc' = "secrets" /\ UNCHANGED <<outcome, hist>>
  /\ UNCHANGED <<constVars, ledgerClass, fileVars, ctxVars, dryRunMode, lastBatch,
                 rowNo, inflight, runNo, calls>>

\* generateMetadata: the image and the metadata document were pinned
\* (metadata.js lines 40-75), then uniques.setClassMetadata is sent
setClassMetadataPinned ==
  /\ pc = "cm_pin"
  /\ \E ok \in BOOLEAN :
       IF ~ok
       THEN /\ Throw("Error")
            /\ inflight' = {}
            /\ UNCHANGED calls
       ELSE /\ inflight' = {Call("setClassMeta", 0, 0, 0)}
            /\ calls' = Append(calls, Call("setClassMeta", 0, 0, 0))
            /\ pc' = "cm_set"
            /\ UNCHANGED <<outcome, hist>>
  /\ UNCHANGED <<constVars, ledgerClass, fileVars, ctxVars, dryRunMode, lastBatch,
                 rowNo, runNo>>

\* signAndSendTx of uniques.setClassMetadata answered (lines 98-105)
setClassMetadataSent ==
  /\ pc = "cm_set"
  /\ \E ok \in BOOLEAN :
       IF ~ok
       THEN /\ Throw("Error")
            /\ UNCHANGED <<ctxClass, cpClass>>
       ELSE /\ ctxClass' = [ctxClass EXCEPT !.metaCid = ClassMetaCid]
            /\ cpClass' = IF ~ctxDryRun THEN classCheckpoint(ctxClass') ELSE cpClass
            /\ pc' = "secrets"
            /\ hist' = [hist EXCEPT !.metaSetFor = @ \cup {ToCsv(ctxClass.id)}]
            /\ UNCHANGED outcome
  /\ inflight' = {}
  /\ UNCHANGED <<constVars, ledgerClass, cpBatch, cpData, outFile, ctxBatch, ctxData,
                 dryRunMode, lastBatch, rowNo, runNo, calls>>

(* ------------------------------ DataTable ------------------------------ *)
Column(title, records) == [title |-> title, records |-> records]

\* utils/csv getColumns for one title: record[idx] of every row, undefined
\* when the title is not in the header
getColumn(d, title) ==
  Column(title, [i \in 1..Len(d.records) |->
                   IF title \in d.header THEN d.records[i][title] ELSE Undef])

columnLengthMismatch(d, columns) ==
  \E k \in 1..Len(columns) : Len(columns[k].records) # Len(d.records)

\* context.data.setColumns when every column has the table's length
setColumns(d, columns) ==
  LET titles == {columns[k].title : k \in 1..Len(columns)}
      last(c) == CHOOSE k \in 1..Len(columns) :
                   /\ columns[k].title = c
                   /\ \A j \in k + 1..Len(columns) : columns[j].title # c
  IN [d EXCEPT
        !.header = d.header \cup titles,
        !.records = [r \in 1..Len(d.records) |->
                       [c \in Cols |-> IF c \in titles
                                       THEN columns[last(c)].records[r]
                                       ELSE d.records[r][c]]]]

\* arr[i] = v of a JavaScript array (0-based)
SetAt(arr, i, v) ==
  [k \in 1..(IF i + 1 > Len(arr) THEN i + 1 ELSE Len(arr)) |->
     IF k = i + 1 THEN v ELSE IF k <= Len(arr) THEN arr[k] ELSE Undef]

inRange(d, i) == i >= d.startRecordNo /\ i < d.endRecordNo

(* ------------------------- generateGiftSecrets ------------------------- *)
generateSecret(i) == [secret |-> Txt(10 + i), address |-> Txt(20 + i)]

lacksSecretAnyRow(d, i) == ~Truthy(getColumn(d, "secret").records[i + 1])

lacksSecret(d, i) == inRange(d, i) /\ ~Truthy(getColumn(d, "secret").records[i + 1])

secretColumns(d) ==
  <<Column("secret", [k \in 1..Len(d.records) |->
       IF lacksSecret(d, k - 1) THEN generateSecret(k - 1).secret
       ELSE getColumn(d, "secret").records[k]]),
    Column("address", [k \in 1..Len(d.records) |->
       IF lacksSecret(d, k - 1) THEN generateSecret(k - 1).address
       ELSE getColumn(d, "address").records[k]])>>

generateGiftSecrets ==
  /\ pc = "secrets"
  /\ LET isUpdated == \E i \in 0..Len(ctxData.records) - 1 : lacksSecret(ctxData, i)
     IN IF isUpdated
        THEN /\ ctxData' = setColumns(ctxData, secretColumns(ctxData))
             /\ cpData' = IF ~ctxDryRun THEN dataCheckpoint(ctxData') ELSE cpData
        ELSE UNCHANGED <<ctxData, cpData>>
  /\ pc' = "mint"
  /\ UNCHANGED <<constVars, ledgerClass, cpClass, cpBatch, outFile, ctxClass, ctxBatch,
                 dryRunMode, lastBatch, rowNo, inflight, outcome, runNo, calls, hist>>

(* ----------------------------- BatchRunner ----------------------------- *)
batchSize == IF cfg.batchSize # 0 THEN cfg.batchSize ELSE DefaultBatchSize

moreBatches(d, lb) == d.startRecordNo + lb * batchSize < d.endRecordNo

batchStartRecordNo(d, lb) == d.startRecordNo + lb * batchSize

\* a batch end that is not clamped to endRecordNo
batchEndUnclamped(d, lb) == d.startRecordNo + (lb + 1) * batchSize

batchEndRecordNo(d, lb) ==
  Min(d.startRecordNo + (lb + 1) * batchSize, d.endRecordNo)

\* one counter shared by the three batched steps
counterFieldShared(kind) == "lastMintBatch"

counterField(kind) ==
  CASE kind = "mint" -> "lastMintBatch"
    [] kind = "setMeta" -> "lastMetadataBatch"
    [] kind = "transfer" -> "lastBalanceTxBatch"

\* the number of completed batches of `kind` that the batch record holds
recorded(file, kind) == batchLoad(file)[counterField(kind)]

\* mintInstancesInBatch line 181
batchStartInstanceId(lb) == StartInstanceId + lb * batchSize

\* the batched call of one loop iteration is issued
batchIssue(kind, waitPc) ==
  /\ lastBatch < MaxBatches
  /\ Issue([Call(kind, lastBatch, batchStartRecordNo(ctxData, lastBatch),
                 batchEndRecordNo(ctxData, lastBatch))
              EXCEPT !.id = IF kind = "mint" THEN batchStartInstanceId(lastBatch)
                            ELSE 0])
  /\ pc' = waitPc

nextBatch(lb) == lb + 1

\* a loop that does not write the batch record before the next call
batchRecordSkipped(b) == cpBatch

batchRecordAfter(b) == IF ~ctxDryRun THEN batchCheckpoint(b) ELSE cpBatch

\* Array.prototype.slice(lo, hi) of an array of n elements: the indexes
\* (0-based) of the elements it returns; a negative bound counts from the end
sliceIndexes(n, lo, hi) ==
  LET rel(k) == IF k < 0 THEN (IF n + k < 0 THEN 0 ELSE n + k) ELSE Min(k, n)
  IN Range(rel(lo), rel(hi))

\* ownerAddresses.slice(batchStartRecordNo, batchEndRecordNo) of the batched
\* call c: the rows whose address the call is given
ownerRows(d, c) == sliceIndexes(Len(d.records), c.lo, c.hi)

\* the rows minted by the mint calls cs, each with the instance id it got:
\* the call's start instance id plus the row's place in the slice of addresses
mintedBy(cs) ==
  UNION {LET rows == ownerRows(ctxData, c)
         IN {[row |-> r, id |-> c.id + Cardinality({q \in rows : q < r})] : r \in rows} :
           c \in {c \in cs : c.kind = "mint"}}

\* the rows minted by the mint calls cs, each with the class id the call was
\* given (context.class.id, line 188), as a class record would hold it
mintedInClass(cs) ==
  {[row |-> m.row, class |-> ToCsv(ctxClass.id)] : m \in mintedBy(cs)}

\* the batched call returned: count the batch and write the batch record
batchCompleted(kind, loopPc) ==
  /\ lastBatch' = nextBatch(lastBatch)
  /\ ctxBatch' = [ctxBatch EXCEPT ![counterField(kind)] = lastBatch']
  /\ cpBatch' = batchRecordAfter(ctxBatch')
  /\ hist' = [hist EXCEPT
       !.ckptDone[kind] =
          IF recorded(cpBatch', kind) > lastBatch THEN @ \cup {lastBatch} ELSE @,
       !.mintedAs = @ \cup mintedBy({c \in inflight : c.kind = kind}),
       !.mintedFor = @ \cup mintedInClass({c \in inflight : c.kind = kind})]
  /\ pc' = loopPc
  /\ UNCHANGED outcome

\* a batched call that counts the batch although the call threw
batchFailedCounted(kind) ==
  /\ Throw("Error")
  /\ lastBatch' = lastBatch + 1
  /\ ctxBatch' = [ctxBatch EXCEPT ![counterField(kind)] = lastBatch']
  /\ cpBatch' = batchCheckpoint(ctxBatch')

\* a batched call that is issued again after it threw
batchFailedRetried(kind) ==
  /\ pc' = CASE kind = "mint" -> "mint_loop"
             [] kind = "setMeta" -> "setMeta_loop"
             [] kind = "transfer" -> "funds_loop"
  /\ UNCHANGED <<lastBatch, ctxBatch, cpBatch, outcome, hist>>

\* the batched call threw: the error leaves the step at the await
batchFailed(kind) ==
  /\ Throw("Error")
  /\ UNCHANGED <<lastBatch, ctxBatch, cpBatch>>

\* the answer of the batched call of kind `kind`
batchReturned(kind, waitPc, loopPc) ==
  /\ pc = waitPc
  /\ \E ok \in BOOLEAN :
       IF ~ok THEN batchFailed(kind) ELSE batchCompleted(kind, loopPc)
  /\ inflight' = {}
  /\ UNCHANGED <<constVars, ledgerClass, cpClass, cpData, outFile, ctxClass, ctxData,
                 dryRunMode, rowNo, runNo, calls>>

(* ------------------------- mintInstancesInBatch ------------------------ *)
firstOrLastEmpty(d, title) ==
  \/ ~Truthy(At(getColumn(d, title).records, d.startRecordNo))
  \/ ~Truthy(At(getColumn(d, title).records, d.endRecordNo - 1))

mintInstancesInBatch ==
  /\ pc = "mint"
  /\ IF ctxClass.id = Undef \/ firstOrLastEmpty(ctxData, "address")
     THEN Throw("WorkflowError") /\ UNCHANGED lastBatch
     ELSE /\ lastBatch' = ctxBatch.lastMintBatch
          /\ pc' = "mint_loop"
          /\ UNCHANGED <<outcome, hist>>
  /\ UNCHANGED <<constVars, ledgerClass, fileVars, ctxVars, dryRunMode, rowNo,
                 inflight, runNo, calls>>

\* the loop of lines 204-212, statement by statement
RECURSIVE instanceIdLoop(_, _, _, _)
instanceIdLoop(d, i, records, currentInstanceId) ==
  IF i > Len(d.records)
  THEN records
  ELSE LET pushed == IF i > Len(records) THEN Append(records, EmptyStr) ELSE records
       IN IF inRange(d, i)
          THEN instanceIdLoop(d, i + 1, SetAt(pushed, i, Num(currentInstanceId)),
                              currentInstanceId + 1)
          ELSE instanceIdLoop(d, i + 1, pushed, currentInstanceId)

\* a column that numbers the rows of the range by their place in the table
instanceIdColumnByRowNo(d) ==
  Column("instanceId", [k \in 1..Len(d.records) |->
                          IF inRange(d, k - 1) THEN Num(k - 1) ELSE EmptyStr])

instanceIdColumn(d) ==
  Column("instanceId", instanceIdLoop(d, 0, <<>>, StartInstanceId))

mintLoop ==
  /\ pc = "mint_loop"
  /\ IF moreBatches(ctxData, lastBatch)
     THEN /\ batchIssue("mint", "mint_wait")
          /\ UNCHANGED <<ctxData, cpData, outcome, hist>>
     ELSE IF columnLengthMismatch(ctxData, <<instanceIdColumn(ctxData)>>)
     THEN /\ Throw("WorkflowError")
          /\ UNCHANGED <<ctxData, cpData, inflight, calls>>
     ELSE /\ ctxData' = setColumns(ctxData, <<instanceIdColumn(ctxData)>>)
          /\ cpData' = IF ~ctxDryRun THEN dataCheckpoint(ctxData') ELSE cpData
          /\ pc' = "pin"
          /\ UNCHANGED <<inflight, calls, outcome, hist>>
  /\ UNCHANGED <<constVars, ledgerClass, cpClass, cpBatch, outFile, ctxClass, ctxBatch,
                 dryRunMode, lastBatch, rowNo, runNo>>

mintReturned == batchReturned("mint", "mint_wait", "mint_loop")

(* --------------------------- pinAndSetImageCid ------------------------- *)
lacksMetaCid(d, i) == inRange(d, i) /\ ~Truthy(getColumn(d, "metaCid").records[i + 1])

generateMetadata(i) == [imageCid |-> Txt(30 + i), metaCid |-> Txt(40 + i)]

cidColumns(d) ==
  <<Column("imageCid", [k \in 1..Len(d.records) |->
       IF lacksMetaCid(d, k - 1) THEN generateMetadata(k - 1).imageCid
       ELSE getColumn(d, "imageCid").records[k]]),
    Column("metaCid", [k \in 1..Len(d.records) |->
       IF lacksMetaCid(d, k - 1) THEN generateMetadata(k - 1).metaCid
       ELSE getColumn(d, "metaCid").records[k]])>>

pinAndSetImageCid ==
  /\ pc = "pin"
  /\ IF ~cfg.instMeta
     THEN pc' = "setMeta" /\ UNCHANGED rowNo
     ELSE pc' = "pin_loop" /\ rowNo' = 0
  /\ UNCHANGED <<constVars, ledgerClass, fileVars, ctxVars, dryRunMode, lastBatch,
                 inflight, outcome, runNo, calls, hist>>

\* the loop of lines 241-279 up to the next row that is pinned
pinLoop ==
  /\ pc = "pin_loop"
  /\ LET todo == {i \in rowNo..Len(ctxData.records) - 1 : lacksMetaCid(ctxData, i)}
         isUpdated == \E i \in 0..Len(ctxData.records) - 1 : lacksMetaCid(ctxData, i)
     IN IF todo # {}
        THEN LET i == CHOOSE j \in todo : \A k \in todo : j <= k
             IN IF i \in env.missing
                THEN /\ Throw("WorkflowError")
                     /\ UNCHANGED <<rowNo, inflight, calls, ctxData, cpData>>
                ELSE /\ Issue(Call("pin", i, i, i + 1))
                     /\ rowNo' = i
                     /\ pc' = "pin_wait"
                     /\ UNCHANGED <<ctxData, cpData, outcome, hist>>
        ELSE /\ IF isUpdated
                THEN /\ ctxData' = setColumns(ctxData, cidColumns(ctxData))
                     /\ cpData' = IF ~ctxDryRun THEN dataCheckpoint(ctxData') ELSE cpData
                ELSE UNCHANGED <<ctxData, cpData>>
             /\ pc' = "setMeta"
             /\ UNCHANGED <<rowNo, inflight, calls, outcome, hist>>
  /\ UNCHANGED <<constVars, ledgerClass, cpClass, cpBatch, outFile, ctxClass, ctxBatch,
                 dryRunMode, lastBatch, runNo>>

\* pinataClient.pinFile of the row's image and metadata document answered
pinReturned ==
  /\ pc = "pin_wait"
  /\ \E ok \in BOOLEAN :
       IF ~ok
       THEN Throw("Error") /\ UNCHANGED rowNo
       ELSE /\ rowNo' = rowNo + 1
            /\ pc' = "pin_loop"
            /\ UNCHANGED <<outcome, hist>>
  /\ inflight' = {}
  /\ UNCHANGED <<constVars, ledgerClass, fileVars, ctxVars, dryRunMode, lastBatch,
                 runNo, calls>>

(* -------------------------- setInstanceMetadata ------------------------ *)
instanceIdMissing(d) ==
  \/ ~isNumber(At(getColumn(d, "instanceId").records, d.startRecordNo))
  \/ ~isNumber(At(getColumn(d, "instanceId").records, d.endRecordNo - 1))

setInstanceMetadata ==
  /\ pc = "setMeta"
  /\ IF ~cfg.instMeta
     THEN /\ pc' = "funds"
          /\ UNCHANGED <<lastBatch, outcome, hist>>
     ELSE IF \/ ctxClass.id = Undef
             \/ firstOrLastEmpty(ctxData, "metaCid")
             \/ instanceIdMissing(ctxData)
     THEN Throw("WorkflowError") /\ UNCHANGED lastBatch
     ELSE /\ lastBatch' = ctxBatch.lastMetadataBatch
          /\ pc' = "setMeta_loop"
          /\ UNCHANGED <<outcome, hist>>
  /\ UNCHANGED <<constVars, ledgerClass, fileVars, ctxVars, dryRunMode, rowNo,
                 inflight, runNo, calls>>

setMetaLoop ==
  /\ pc = "setMeta_loop"
  /\ IF moreBatches(ctxData, lastBatch)
     THEN batchIssue("setMeta", "setMeta_wait")
     ELSE pc' = "funds" /\ UNCHANGED <<inflight, calls>>
  /\ UNCHANGED <<constVars, ledgerClass, fileVars, ctxVars, dryRunMode, lastBatch,
                 rowNo, outcome, runNo, hist>>

setMetaReturned == batchReturned("setMeta", "setMeta_wait", "setMeta_loop")

(* ---------------------------- sendInitialFunds ------------------------- *)
\* all seven steps returned: runWorkflow is at line 517
stepsDone(h) == [h EXCEPT !.stepsDone = TRUE]

sendInitialFunds ==
  /\ pc = "funds"
  /\ IF cfg.fund = -1 \/ cfg.fund = 0
     THEN /\ pc' = "finalize"
          /\ hist' = stepsDone(hist)
          /\ UNCHANGED <<lastBatch, outcome>>
     ELSE IF firstOrLastEmpty(ctxData, "address")
     THEN Throw("WorkflowError") /\ UNCHANGED lastBatch
     ELSE /\ lastBatch' = ctxBatch.lastBalanceTxBatch
          /\ pc' = "funds_loop"
          /\ UNCHANGED <<outcome, hist>>
  /\ UNCHANGED <<constVars, ledgerClass, fileVars, ctxVars, dryRunMode, rowNo,
                 inflight, runNo, calls>>

fundsLoop ==
  /\ pc = "funds_loop"
  /\ IF moreBatches(ctxData, lastBatch)
     THEN batchIssue("transfer", "funds_wait") /\ UNCHANGED hist
     ELSE /\ pc' = "finalize"
          /\ hist' = stepsDone(hist)
          /\ UNCHANGED <<inflight, calls>>
  /\ UNCHANGED <<constVars, ledgerClass, fileVars, ctxVars, dryRunMode, lastBatch,
                 rowNo, outcome, runNo>>

fundsReturned == batchReturned("transfer", "funds_wait", "funds_loop")

(* ------------------------------ Finalized ------------------------------ *)
\* context.clean: the first unlink that fails ends the cleanup
clean(files) ==
  IF ~files.batch.exists THEN files
  ELSE IF ~files.data.exists THEN [files EXCEPT !.batch = NoBatchFile]
  ELSE IF ~files.class.exists
       THEN [files EXCEPT !.batch = NoBatchFile, !.data = NoTable]
  ELSE [batch |-> NoBatchFile, data |-> NoTable, class |-> NoClassFile]

\* runWorkflow lines 517-525: writeFinalResult, then context.clean
finalize ==
  /\ pc = "finalize"
  /\ \E copied \in BOOLEAN :
       IF ~copied
       THEN /\ Throw("Error")
            /\ UNCHANGED fileVars
       ELSE LET left == clean([batch |-> cpBatch, data |-> cpData, class |-> cpClass])
            IN /\ outFile' = cpData.exists
               /\ cpBatch' = left.batch
               /\ cpData' = left.data
               /\ cpClass' = left.class
               /\ pc' = "exit"
               /\ outcome' = "ok"
               /\ hist' = [hist EXCEPT
                    !.finalized = TRUE,
                    !.ckptDone = IF left.batch.exists THEN @
                                 ELSE [k \in BatchKinds |-> {}],
                    !.mintedAs = IF left.batch.exists THEN @ ELSE {},
                    !.mintedFor = IF left.batch.exists THEN @ ELSE {},
                    !.stepsDone = left.batch.exists \/ left.data.exists
                                    \/ left.class.exists]
  /\ UNCHANGED <<constVars, ledgerClass, ctxVars, dryRunMode, lastBatch, rowNo,
                 inflight, runNo, calls>>

\* the process is killed (or the machine stops) at any point of a run; a
\* create-class submission in flight may or may not have reached the ledger
Crash ==
  /\ pc \notin {"idle", "exit"}
  /\ pc' = "idle"
  /\ outcome' = "killed"
  /\ ledgerClass' \in IF pc = "cc_create" THEN {ledgerClass, TRUE} ELSE {ledgerClass}
  /\ ctxClass' = InitClass
  /\ ctxBatch' = InitBatch
  /\ ctxData' = InitData
  /\ lastBatch' = 0
  /\ rowNo' = 0
  /\ inflight' = {}
  /\ dryRunMode' = FALSE
  /\ calls' = <<>>
  /\ hist' = runEnded(hist)
  /\ UNCHANGED <<constVars, fileVars, runNo>>

Next ==
  \/ StartRun
  \/ checkPreviousCheckpoints
  \/ loadContext
  \/ verifyWorkflow
  \/ createClass
  \/ createClassQueried
  \/ createClassAnswered
  \/ createClassSent
  \/ setClassMetadata
  \/ setClassMetadataAnswered
  \/ setClassMetadataPinned
  \/ setClassMetadataSent
  \/ generateGiftSecrets
  \/ mintInstancesInBatch
  \/ mintLoop
  \/ mintReturned
  \/ pinAndSetImageCid
  \/ pinLoop
  \/ pinReturned
  \/ setInstanceMetadata
  \/ setMetaLoop
  \/ setMetaReturned
  \/ sendInitialFunds
  \/ fundsLoop
  \/ fundsReturned
  \/ finalize
  \/ ProcessExit
  \/ Crash

Spec == Init /\ [][Next]_vars

(* ------------- campaigns whose data csv already carries secrets -------- *)
\* A row of the data csv comes with a secret and an address ("both"), with a
\* secret only ("secret"), or with neither ("none"); both columns are in the
\* header of such a file.
RowKinds == {"none", "both", "secret"}

PrefilledRow(i, kind) ==
  [EmptyRow EXCEPT
     !.secret = IF kind = "none" THEN EmptyStr ELSE Txt(60 + i),
     !.address = IF kind = "both" THEN Txt(70 + i) ELSE EmptyStr]

PrefilledTable(kinds) ==
  [exists |-> TRUE, header |-> {"secret", "address"},
   rows |-> [i \in 1..Len(kinds) |-> PrefilledRow(i - 1, kinds[i])]]

\* the whole table, all rows but the first, and a count below zero, which
\* parseInt passes on: the range then ends before it starts
PrefilledRanges ==
  {[offset |-> 0, count |-> 0], [offset |-> 2, count |-> 0],
   [offset |-> MaxRows, count |-> -1]}

\* the second row may lack its address, every row may lack both fields
PrefilledKinds ==
  {kinds \in [1..MaxRows -> RowKinds] : \A i \in 1..MaxRows : i # 2 => kinds[i] # "secret"}

PrefilledInputs ==
  {Input(Config(r.offset, r.count, MaxBatchSize, Digits(7), cm, m, MaxFund),
         [Env(1, MaxRows, {}) EXCEPT !.src = PrefilledTable(kinds)], ~cm) :
     r \in PrefilledRanges, kinds \in PrefilledKinds, cm \in BOOLEAN, m \in BOOLEAN}

PrefilledInit ==
  /\ \E in \in PrefilledInputs : pipelineIdle(in)
  /\ table = NoCallYet
  /\ csvIo = NoCsvIo

PrefilledSpec == PrefilledInit /\ [][Next]_vars

(* ---------------- campaigns with any parsed batch size ----------------- *)
\* instance.batchSize as parseInt returns it: any integer, a negative one
\* included (parseInt("-1") is -1, which is truthy and so is not replaced by
\* the default); 0 stands for an absent or unparsable value. Class metadata
\* is configured for a class that the ledger holds already, and is left out
\* for a class that is still to be created.
BatchSizes == -MaxBatchSize..MaxBatchSize

\* a data csv that names the owner of every row and holds no secret
AddressedTable(n) ==
  [exists |-> TRUE, header |-> {"address"},
   rows |-> [i \in 1..n |-> [EmptyRow EXCEPT !.address = Txt(70 + i - 1)]]]

BatchSizeInputs ==
  {Input(Config(o, 0, b, Digits(7), cm, m, f),
         [Env(1, n, {}) EXCEPT !.src = IF a THEN AddressedTable(n) ELSE @], cm) :
     o \in {0, 2}, b \in BatchSizes, n \in 0..MaxRows, cm \in BOOLEAN,
     m \in BOOLEAN, f \in {-1, MaxFund}, a \in BOOLEAN}

BatchSizeInit ==
  /\ \E in \in BatchSizeInputs : pipelineIdle(in)
  /\ table = NoCallYet
  /\ csvIo = NoCsvIo

BatchSizeSpec == BatchSizeInit /\ [][Next]_vars

(* -------- campaigns on the final table of an earlier campaign ---------- *)
\* The data csv has all five columns: a row that an earlier campaign went
\* through holds its secret, address, image CID, metadata CID and instance
\* id ("filled"), any other row holds five empty fields ("empty").
FilledKinds == {"empty", "filled"}

FilledRow(i, kind) ==
  IF kind = "filled"
  THEN [secret |-> Txt(60 + i), address |-> Txt(70 + i), imageCid |-> Txt(80 + i),
        metaCid |-> Txt(90 + i), instanceId |-> Digits(i)]
  ELSE [c \in Cols |-> EmptyStr]

FilledTable(kinds) ==
  [exists |-> TRUE, header |-> Cols,
   rows |-> [i \in 1..Len(kinds) |-> FilledRow(i - 1, kinds[i])]]

\* the whole table, or its second row only
FilledRanges == {[offset |-> 0, count |-> 0], [offset |-> 2, count |-> 1]}

FilledInputs ==
  {Input(Config(r.offset, r.count, MaxBatchSize, Digits(7), cm, m, MaxFund),
         [Env(1, MaxRows, {}) EXCEPT !.src = FilledTable(kinds)], ~cm) :
     r \in FilledRanges, kinds \in [1..MaxRows -> FilledKinds], cm \in BOOLEAN,
     m \in BOOLEAN}

FilledInit ==
  /\ \E in \in FilledInputs : pipelineIdle(in)
  /\ table = NoCallYet
  /\ csvIo = NoCsvIo

FilledSpec == FilledInit /\ [][Next]_vars

(* ------------- campaigns whose class id is edited between runs --------- *)
\* runWorkflow parses workflow.json anew in every invocation (line 466), so
\* the operator may give class.id another value between two invocations; the
\* row range and the batch size stay as they were. The ledger may or may not
\* hold a class of the new id.
OtherClassId == Digits(8)

editClassId ==
  /\ pc = "idle"
  /\ runNo > 0
  /\ cfg.classId # OtherClassId
  /\ cfg' = [cfg EXCEPT !.classId = OtherClassId]
  /\ ledgerClass' \in BOOLEAN
  /\ UNCHANGED <<env, table, csvIo, fileVars, ctxVars, pc, dryRunMode, lastBatch, rowNo,
                 inflight, outcome, runNo, calls, hist>>

ReconfigInputs ==
  {Input(Config(0, 0, b, Digits(7), cm, m, f), Env(1, MaxRows, {}), e) :
     b \in 1..MaxBatchSize, cm \in BOOLEAN, m \in BOOLEAN, f \in {-1, MaxFund},
     e \in BOOLEAN}

ReconfigInit ==
  /\ \E in \in ReconfigInputs : pipelineIdle(in)
  /\ table = NoCallYet
  /\ csvIo = NoCsvIo

ReconfigNext == Next \/ editClassId

ReconfigSpec == ReconfigInit /\ [][ReconfigNext]_vars

(* ------------------- the DataTable, column by column ------------------- *)
\* header is the array of titles and a row the array of its fields, as
\* readCsvSync returns them and setColumns writes them.
Null == [t |-> "null", v |-> 0]

Titles == {"secret", "instanceId"}

\* header.indexOf(col)
indexOf(header, col) ==
  IF \E i \in 1..Len(header) : header[i] = col
  THEN (CHOOSE i \in 1..Len(header) :
          header[i] = col /\ \A j \in 1..i - 1 : header[j] # col) - 1
  ELSE -1

\* an index that is one too high
getColumnIndexOffByOne(header, titles) ==
  [k \in 1..Len(titles) |->
     IF titles[k] = "" \/ indexOf(header, titles[k]) = -1 THEN Null
     ELSE Num(indexOf(header, titles[k]) + 1)]

getColumnIndex(header, titles) ==
  [k \in 1..Len(titles) |->
     IF titles[k] = "" \/ indexOf(header, titles[k]) = -1 THEN Null
     ELSE Num(indexOf(header, titles[k]))]

\* record[idx], idx being a number or null
Field(record, idx) == IF idx = Null THEN Undef ELSE At(record, idx.v)

getColumns(titles, header, records) ==
  LET columnIdxs == getColumnIndex(header, titles)
  IN [i \in 1..Len(titles) |->
        Column(titles[i],
               [r \in 1..Len(records) |-> Field(records[r], columnIdxs[i])])]

\* the forEach of setColumns (lines 115-127) over the columns that are left:
\* the header and the column indexes when it ends, and whether it threw
RECURSIVE setColumnsIndexes(_, _, _, _)
setColumnsIndexes(header, n, columns, columnIdxs) ==
  IF columns = <<>>
  THEN [header |-> header, columnIdxs |-> columnIdxs, threw |-> FALSE]
  ELSE IF Len(Head(columns).records) # n
  THEN [header |-> header, columnIdxs |-> columnIdxs, threw |-> TRUE]
  ELSE LET found == getColumnIndex(header, <<Head(columns).title>>)[1]
           pushed == IF found = Null THEN Append(header, Head(columns).title)
                     ELSE header
           idx == IF found = Null THEN Len(pushed) - 1 ELSE found.v
       IN setColumnsIndexes(pushed, n, Tail(columns), Append(columnIdxs, idx))

\* the inner loop of setColumns (lines 129-131) for row r, from column c on
RECURSIVE setColumnsRow(_, _, _, _, _)
setColumnsRow(record, r, columns, columnIdxs, c) ==
  IF c > Len(columns) THEN record
  ELSE setColumnsRow(SetAt(record, columnIdxs[c], columns[c].records[r]),
                     r, columns, columnIdxs, c + 1)

\* context.data.setColumns on the header and rows of t
dataSetColumns(t, columns) ==
  LET scan == setColumnsIndexes(t.header, Len(t.records), columns, <<>>)
  IN [header |-> scan.header,
      records |-> IF scan.threw THEN t.records
                  ELSE [r \in 1..Len(t.records) |->
                          setColumnsRow(t.records[r], r, columns, scan.columnIdxs, 1)],
      threw |-> IF scan.threw THEN "WorkflowError" ELSE "none"]

\* the tables readCsvSync can return: every row has as many fields as the
\* header, and every field is a string
TitleNo(title) == CHOOSE k \in 1..Len(columnTitles) : columnTitles[k] = title

LoadedHeaders == {<<>>, <<"address">>, <<"address", "secret">>}

LoadedTable(header, n) ==
  [header |-> header,
   records |-> [r \in 1..n |-> [c \in 1..Len(header) |-> Txt(10 * r + TitleNo(header[c]))]]]

\* the columns a caller passes: a title and any number of values
ColumnArgs(n) ==
  {Column(title, [r \in 1..len |-> Txt(50 + 10 * r + TitleNo(title))]) :
     title \in Titles, len \in {n, n + 1}}

Lists(S) == {<<x>> : x \in S} \cup {<<x, y>> : x \in S, y \in S}

TableInit ==
  /\ \E in \in {Input(Config(0, 0, 0, Digits(7), TRUE, TRUE, -1), Env(1, 0, {}), FALSE)} :
       pipelineIdle(in)
  /\ \E header \in LoadedHeaders, n \in 0..MaxTableRows :
       \* a file without a header line has no rows either
       /\ header = <<>> => n = 0
       /\ table = [NoCallYet EXCEPT !.header = header,
                                 !.records = LoadedTable(header, n).records,
                                 !.loaded = LoadedTable(header, n),
                                 !.before = LoadedTable(header, n)]
  /\ csvIo = NoCsvIo

\* a caller of context.data.setColumns
setColumnsCall ==
  /\ \E columns \in Lists(ColumnArgs(Len(table.records))) :
       LET after == dataSetColumns(table, columns)
       IN table' = [table EXCEPT
            !.header = after.header,
            !.records = after.records,
            !.before = [header |-> table.header, records |-> table.records],
            !.op = "setColumns",
            !.columns = columns,
            !.titles = <<>>,
            !.returned = <<>>,
            !.threw = after.threw]
  /\ UNCHANGED <<pipelineVars, csvIo>>

\* a caller of context.data.getColumns (lines 106-112; the header is an array
\* from the start, so the else branch is never taken)
getColumnsCall ==
  /\ \E titles \in Lists(Titles \cup {"address"}) :
       table' = [table EXCEPT
            !.before = [header |-> table.header, records |-> table.records],
            !.op = "getColumns",
            !.columns = <<>>,
            !.titles = titles,
            !.returned = getColumns(titles, table.header, table.records),
            !.threw = "none"]
  /\ UNCHANGED <<pipelineVars, csvIo>>

TableNext ==
  \/ setColumnsCall
  \/ getColumnsCall

TableSpec == TableInit /\ [][TableNext]_vars

(* --------------------- checkpoint files, character by character -------- *)
\* A string is the sequence of its characters; a file is one string.
Comma == ","
Quote == "\""
LineBreak == "\n"
Chars == {"a", Comma, Quote, LineBreak}

\* field.includes(',') || field.includes('\n') || field.includes('"')
needsQuoting(field) ==
  \E i \in 1..Len(field) : field[i] \in {Comma, LineBreak, Quote}

\* field.replaceAll('"', '""')
RECURSIVE replaceAllQuotes(_)
replaceAllQuotes(field) ==
  IF field = <<>> THEN <<>>
  ELSE (IF Head(field) = Quote THEN <<Quote, Quote>> ELSE <<Head(field)>>)
         \o replaceAllQuotes(Tail(field))

normalizeCsvFields(record) ==
  [i \in 1..Len(record) |->
     IF needsQuoting(record[i])
     THEN <<Quote>> \o replaceAllQuotes(record[i]) \o <<Quote>>
     ELSE record[i]]

\* Array.prototype.join of strings
RECURSIVE join(_, _)
join(items, separator) ==
  IF items = <<>> THEN <<>>
  ELSE IF Len(items) = 1 THEN items[1]
  ELSE items[1] \o <<separator>> \o join(Tail(items), separator)

\* writeCsvSync: the header goes to the file as it is, only the rows are
\* normalized; join('\n') of an array of arrays joins each array with ','
writeCsvSync(headers, records) ==
  LET data == <<headers>> \o [r \in 1..Len(records) |-> normalizeCsvFields(records[r])]
  IN join([k \in 1..Len(data) |-> join(data[k], Comma)], LineBreak)

\* csv-parse reading one character: the records read so far, the record and
\* the field being read, and whether a quoted part is open or was just closed
ParseStart ==
  [records |-> <<>>, record |-> <<>>, field |-> <<>>, quoting |-> FALSE,
   wasQuoting |-> FALSE, error |-> FALSE]

\* the record being read ends: records of different lengths are an error
endRecord(st) ==
  LET record == Append(st.record, st.field)
  IN IF st.records # <<>> /\ Len(record) # Len(st.records[1])
     THEN [st EXCEPT !.error = TRUE]
     ELSE [ParseStart EXCEPT !.records = Append(st.records, record)]

\* parse(data, {skip_empty_lines: true}) from character i on
RECURSIVE parse(_, _, _)
parse(data, i, st) ==
  IF st.error THEN st
  ELSE IF i > Len(data)
  THEN IF st.quoting THEN [st EXCEPT !.error = TRUE]
       ELSE IF st.wasQuoting \/ st.record # <<>> \/ st.field # <<>> THEN endRecord(st)
       ELSE st
  ELSE IF st.quoting
  THEN IF data[i] # Quote
       THEN parse(data, i + 1, [st EXCEPT !.field = Append(@, data[i])])
       ELSE IF i < Len(data) /\ data[i + 1] = Quote
       THEN parse(data, i + 2, [st EXCEPT !.field = Append(@, Quote)])
       ELSE IF i = Len(data) \/ data[i + 1] \in {Comma, LineBreak}
       THEN parse(data, i + 1, [st EXCEPT !.quoting = FALSE, !.wasQuoting = TRUE])
       ELSE [st EXCEPT !.error = TRUE]
  ELSE IF data[i] = Quote
  THEN IF st.field = <<>> /\ ~st.wasQuoting
       THEN parse(data, i + 1, [st EXCEPT !.quoting = TRUE])
       ELSE [st EXCEPT !.error = TRUE]
  ELSE IF data[i] = LineBreak
  THEN IF ~st.wasQuoting /\ st.record = <<>> /\ st.field = <<>>
       THEN parse(data, i + 1, st)
       ELSE parse(data, i + 1, endRecord(st))
  ELSE IF data[i] = Comma
  THEN parse(data, i + 1, [st EXCEPT !.record = Append(@, st.field),
                                      !.field = <<>>, !.wasQuoting = FALSE])
  ELSE parse(data, i + 1, [st EXCEPT !.field = Append(@, data[i])])

\* readCsvSync with hasHeader = true
readCsvSync(file) ==
  LET parsed == parse(file, 1, ParseStart)
  IN IF parsed.error THEN [threw |-> "CsvError", header |-> <<>>, records |-> <<>>]
     ELSE IF Len(parsed.records) > 0
     THEN [threw |-> "none", header |-> parsed.records[1],
           records |-> Tail(parsed.records)]
     ELSE [threw |-> "none", header |-> <<>>, records |-> <<>>]

\* the strings of at most n characters
RECURSIVE Strings(_)
Strings(n) ==
  IF n = 0 THEN {<<>>}
  ELSE Strings(n - 1) \cup {Append(s, c) : s \in Strings(n - 1), c \in Chars}

\* the tables of `columns` columns and at most `rows` rows over the fields F,
\* no title being empty
Tables(columns, rows, F) ==
  UNION {[header : {h}, records : [1..n -> [1..columns -> F]]] :
           h \in [1..columns -> F \ {<<>>}], n \in 0..rows}

CsvInit ==
  /\ \E in \in {Input(Config(0, 0, 0, Digits(7), TRUE, TRUE, -1), Env(1, 0, {}), FALSE)} :
       pipelineIdle(in)
  /\ table = NoCallYet
  /\ \E t \in Tables(1, MaxCsvRows, Strings(MaxFieldLen))
                \cup Tables(2, 1, Strings(1)) :
       csvIo = [NoCsvIo EXCEPT !.header = t.header, !.records = t.records]

\* context.data.checkpoint: writeCsvSync(cpfiles.data, header, records)
writeCheckpoint ==
  /\ csvIo.phase = "none"
  /\ csvIo' = [csvIo EXCEPT !.file = writeCsvSync(csvIo.header, csvIo.records),
                            !.phase = "saved"]
  /\ UNCHANGED <<pipelineVars, table>>

\* getCheckpointRecords: readCsvSync of the file
readCheckpoint ==
  /\ csvIo.phase = "saved"
  /\ LET read == readCsvSync(csvIo.file)
     IN csvIo' = [csvIo EXCEPT !.phase = "loaded", !.threw = read.threw,
                    !.loaded = [header |-> read.header, records |-> read.records]]
  /\ UNCHANGED <<pipelineVars, table>>

CsvNext ==
  \/ writeCheckpoint
  \/ readCheckpoint

CsvSpec == CsvInit /\ [][CsvNext]_vars

(* ======================== properties of the code ======================= *)
Waits == {"mint_wait", "setMeta_wait", "funds_wait"}
waitPc(kind) ==
  CASE kind = "mint" -> "mint_wait"
    [] kind = "setMeta" -> "setMeta_wait"
    [] kind = "transfer" -> "funds_wait"
loopPc(kind) ==
  CASE kind = "mint" -> "mint_loop"
    [] kind = "setMeta" -> "setMeta_loop"
    [] kind = "transfer" -> "funds_loop"

\* the calls of one kind that this invocation issued, in order
callsOf(kind) == SelectSeq(calls, LAMBDA c : c.kind = kind)

\* the counter of `kind` that a batch record file holds (0 without a file)
persisted(file, kind) ==
  IF ~file.exists THEN 0
  ELSE CASE kind = "mint" -> file.mint.v
         [] kind = "setMeta" -> file.meta.v
         [] kind = "transfer" -> file.funds.v

configuredBatchSize == IF cfg.batchSize = 0 THEN 100 ELSE cfg.batchSize

\* C1: a batched step that is restarted with the persisted counter k issues
\* batch k first, for rows [start+k*size, min(start+(k+1)*size, end)), and a
\* batch whose checkpoint write completed is never issued again, over any
\* sequence of failures, kills and restarts of the campaign.
C1_ResumesAtFirstUncompletedBatch ==
  /\ \A c \in inflight :
       c.kind \in BatchKinds => c.idx \notin hist.ckptDone[c.kind]
  /\ \A k \in BatchKinds :
       callsOf(k) # <<>> =>
         LET first == callsOf(k)[1]
             n == persisted(hist.batchAtStart, k)
         IN /\ first.idx = n
            /\ first.lo = ctxData.startRecordNo + n * configuredBatchSize
            /\ first.hi = Min(ctxData.startRecordNo + (n + 1) * configuredBatchSize,
                              ctxData.endRecordNo)

\* a restarted invocation has the second mint batch in flight as its first
C1_Witness ==
  /\ runNo > 1
  /\ persisted(hist.batchAtStart, "mint") = 1
  /\ hist.ckptDone["mint"] = {0}
  /\ inflight = {[Call("mint", 1, ctxData.startRecordNo + configuredBatchSize,
                       ctxData.endRecordNo) EXCEPT !.id = configuredBatchSize]}

\* C2: a counter (in memory and in the batch record) is incremented only when
\* the call for that batch returned success; when the call fails the error
\* leaves the step and both counters are as they were before the call.
C2_CounterAdvancesOnlyOnSuccess ==
  [][\A k \in BatchKinds :
       /\ (pc = waitPc(k) /\ pc' = "exit") =>
            /\ outcome' = "Error"
            /\ ctxBatch' = ctxBatch
            /\ cpBatch' = cpBatch
       /\ (persisted(cpBatch', k) > persisted(cpBatch, k)) =>
            /\ pc = waitPc(k) /\ pc' = loopPc(k)
            /\ \E c \in inflight : c.kind = k /\ c.idx = persisted(cpBatch, k)
            /\ persisted(cpBatch', k) = persisted(cpBatch, k) + 1
       /\ (ctxBatch'[counterField(k)] # ctxBatch[counterField(k)]
             /\ pc # "load" /\ pc' # "idle") =>
            /\ pc = waitPc(k) /\ pc' = loopPc(k)
            /\ ctxBatch'[counterField(k)] = ctxBatch[counterField(k)] + 1
     ]_vars

\* the second mint batch failed: one batch is counted, in memory and on disk
C2_Witness ==
  /\ pc = "exit"
  /\ outcome = "Error"
  /\ hist.failedAt = "mint_wait"
  /\ ctxBatch.lastMintBatch = 1
  /\ persisted(cpBatch, "mint") = 1

\* C3: the call for batch n+1 is issued only when the batch record that counts
\* batch n is written, and at most one external call is in flight.
C3_NextBatchAfterCheckpoint ==
  /\ Cardinality(inflight) <= 1
  /\ inflight # {} => pc \in Waits \cup {"cc_query", "cc_create", "cm_pin", "cm_set",
                                        "pin_wait"}
  /\ \A c \in inflight :
       c.kind \in BatchKinds /\ c.idx > 0 =>
         /\ cpBatch.exists
         /\ persisted(cpBatch, c.kind) = c.idx

\* the second funds batch is in flight in the invocation that sent the first
C3_Witness ==
  /\ \E c \in inflight : c.kind = "transfer" /\ c.idx = 1
  /\ Len(callsOf("transfer")) = 2

expectedBatches(d) ==
  (d.endRecordNo - d.startRecordNo + configuredBatchSize - 1) \div configuredBatchSize

\* the calls of `kind` are the batches 0, 1, ... of the row range: as many as
\* ceil((end - start) / size), contiguous, non-empty, from start to end
coversRange(kind, d) ==
  LET cs == callsOf(kind)
  IN /\ Len(cs) = expectedBatches(d)
     /\ \A n \in 1..Len(cs) :
          /\ cs[n].idx = n - 1
          /\ cs[n].lo = d.startRecordNo + (n - 1) * configuredBatchSize
          /\ cs[n].hi = Min(d.startRecordNo + n * configuredBatchSize, d.endRecordNo)
          /\ cs[n].lo < cs[n].hi
          /\ n > 1 => cs[n].lo = cs[n - 1].hi
     /\ Len(cs) > 0 => cs[1].lo = d.startRecordNo /\ cs[Len(cs)].hi = d.endRecordNo
     /\ \A i \in Range(d.startRecordNo, d.endRecordNo) :
          Cardinality({n \in 1..Len(cs) : cs[n].lo <= i /\ i < cs[n].hi}) = 1

\* C4: a batched step that starts with counter 0 and meets no failure issues
\* exactly ceil((end-start)/size) calls whose row ranges are contiguous,
\* disjoint, non-empty and cover [start, end).
C4_BatchesPartitionRange ==
  /\ (pc = "pin" /\ persisted(hist.batchAtStart, "mint") = 0)
       => coversRange("mint", ctxData)
  /\ (pc = "funds" /\ cfg.instMeta /\ persisted(hist.batchAtStart, "setMeta") = 0)
       => coversRange("setMeta", ctxData)
  /\ (pc = "finalize" /\ cfg.fund > 0 /\ persisted(hist.batchAtStart, "transfer") = 0)
       => coversRange("transfer", ctxData)

\* three rows were minted in batches of two: [0,2) and [2,3)
C4_Witness ==
  /\ pc = "pin"
  /\ callsOf("mint") = <<Call("mint", 0, 0, 2),
                         [Call("mint", 1, 2, 3) EXCEPT !.id = 2]>>

uploadsAndSubmissions == Submissions \cup {"pin"}

C6_ClassStepSkippedOnResume ==
  (/\ pc # "idle"
   /\ hist.classAtStart.exists
   /\ hist.classAtStart.id.t = "digits"
   /\ hist.classAtStart.id.v = cfg.classId.v)
  => /\ pc \notin {"cc_query", "cc_prompt", "cc_create"}
     /\ callsOf("query") = <<>>
     /\ callsOf("create") = <<>>

\* C7: a dry run leaves no class, batch or data checkpoint that was not there
\* when it started.
C7_DryRunWritesNoCheckpoint ==
  dryRunMode =>
    /\ cpClass.exists => hist.cpAtStart.class
    /\ cpBatch.exists => hist.cpAtStart.batch
    /\ cpData.exists => hist.cpAtStart.data

lowFund == cfg.fund > 0 /\ cfg.fund < env.deposit

missingInRange ==
  /\ cfg.instMeta
  /\ \E i \in 0..MaxRows :
       /\ ctxData.startRecordNo <= i /\ i < ctxData.endRecordNo
       /\ i \in env.missing

beforeSteps == {"idle", "checkPrev", "load", "verify"}

abortedInValidate ==
  pc = "exit" /\ hist.failedAt = "verify" /\ outcome = "WorkflowError"

\* C8: a dry run runs Validate only: no step and no Finalized is entered, no
\* external call is issued, and the invocation ends, with success when the
\* checks pass.
C8_DryRunValidatesOnly ==
  dryRunMode =>
    /\ pc \in {"checkPrev", "load", "verify", "exit"}
    /\ calls = <<>> /\ inflight = {}
    /\ pc # "exit" => ENABLED (checkPreviousCheckpoints \/ loadContext \/ verifyWorkflow)
    /\ pc = "exit" => IF lowFund \/ missingInRange THEN abortedInValidate
                      ELSE outcome = "ok"

\* a dry run ended with success
C8_Witness == dryRunMode /\ pc = "exit" /\ outcome = "ok" /\ cfg.instMeta

\* C9 as the specification states it: every configured amount below the
\* minimum deposit aborts the invocation in Validate.
C9_Original ==
  (cfg.fund # -1 /\ cfg.fund < env.deposit) => (pc \in beforeSteps \/ abortedInValidate)

\* C9 (amended): a configured amount other than zero that is below the minimum
\* deposit aborts the invocation in Validate before any external call; an
\* amount equal to or above the minimum deposit passes the check.
C9_NonZeroFundBelowDepositRejected ==
  /\ lowFund => (pc \in beforeSteps \/ abortedInValidate) /\ calls = <<>>
  /\ (cfg.fund >= env.deposit /\ pc \notin {"idle", "checkPrev", "load"}
        /\ ~missingInRange) => hist.failedAt # "verify"

\* the amount 1 was rejected against the minimum deposit 2
C9_Witness ==
  abortedInValidate /\ cfg.fund = 1 /\ env.deposit = 2 /\ ~missingInRange

\* C10: with instance metadata configured, a missing image file of any row of
\* [startRecordNo, endRecordNo) aborts the invocation in Validate before any
\* pinning call and any ledger submission; when every file is there the check
\* passes.
C10_MissingImageRejected ==
  pc \notin {"idle", "checkPrev", "load"} =>
    /\ missingInRange => (pc = "verify" \/ abortedInValidate) /\ calls = <<>>
    /\ (~missingInRange /\ ~lowFund) => hist.failedAt # "verify"

\* the image of the second row of three was missing
C10_Witness ==
  /\ abortedInValidate /\ ~lowFund
  /\ env.missing = {1} /\ ctxData.startRecordNo = 0 /\ ctxData.endRecordNo = 3

(* ------------------- properties of the DataTable calls ----------------- *)
\* the last call was a setColumns one of whose columns has not as many values
\* as the table has rows
mismatchedCall ==
  /\ table.op = "setColumns"
  /\ \E k \in 1..Len(table.columns) :
       Len(table.columns[k].records) # Len(table.before.records)

\* C11: setColumns is all-or-nothing: when a column of the list has a number
\* of values other than the number of rows, the call fails with the length
\* mismatch error and the header and every row are as before the call, also
\* when an earlier column of the list is valid and has a new title.
C11_SetColumnsAllOrNothing ==
  mismatchedCall =>
    /\ table.threw = "WorkflowError"
    /\ table.header = table.before.header
    /\ table.records = table.before.records

absentTitle(title) == \A c \in 1..Len(table.header) : table.header[c] # title

\* the values of the first column titled `title`, one per row in row order
columnValues(title) ==
  LET c == CHOOSE c \in 1..Len(table.header) :
             table.header[c] = title /\ \A j \in 1..c - 1 : table.header[j] # title
  IN [r \in 1..Len(table.records) |->
        IF c <= Len(table.records[r]) THEN table.records[r][c] ELSE Undef]

C13_CheckpointRoundTrip ==
  csvIo.phase = "loaded" =>
    /\ csvIo.threw = "none"
    /\ csvIo.loaded.header = csvIo.header
    /\ csvIo.loaded.records = csvIo.records

(* ------------------------ properties of the row range ------------------ *)
loaded == pc \notin {"idle", "checkPrev", "load"}

\* C14: for every configured offset and count and every table, the range
\* that load computes satisfies 0 <= startRecordNo <= endRecordNo <=
\* rows.length, and neither bound changes while the invocation runs.
C14_RangeWithinTable ==
  loaded =>
    /\ 0 <= ctxData.startRecordNo
    /\ ctxData.startRecordNo <= ctxData.endRecordNo
    /\ ctxData.endRecordNo <= Len(ctxData.records)
    /\ ctxData.startRecordNo = hist.rangeAtLoad.startRecordNo
    /\ ctxData.endRecordNo = hist.rangeAtLoad.endRecordNo

\* C15: after any sequence of setColumns calls, failed ones included, the
\* table has as many rows as were loaded, no title has left the header, and
\* every row has as many fields as the header has titles.
C15_TableShapeKept ==
  /\ Len(table.records) = Len(table.loaded.records)
  /\ \A k \in 1..Len(table.before.header) :
       \E c \in 1..Len(table.header) : table.header[c] = table.before.header[k]
  /\ \A r \in 1..Len(table.records) : Len(table.records[r]) = Len(table.header)

(* ------------------- properties of failures and Finalized -------------- *)
\* the positions at which the process awaits the answer of an external call
CallPcs == Waits \cup {"cc_query", "cc_create", "cm_pin", "cm_set", "pin_wait"}

\* the batches of `kind` that this invocation was answered with success, the
\* call awaited at position `at` having failed
completedInRun(kind, at) ==
  Len(callsOf(kind)) - (IF at = waitPc(kind) THEN 1 ELSE 0)

\* C16: when an external call fails, the invocation ends with an error, the
\* failed call is not issued again and no other call is issued after it, and
\* every persisted batch counter counts the batches completed before the
\* failure.
C16_NoRetryAfterFailure ==
  /\ [](\A m, n \in 1..Len(calls) : m # n => calls[m] # calls[n])
  /\ [][/\ (pc \in CallPcs /\ pc' = "exit") =>
             /\ outcome' = "Error"
             /\ inflight' = {}
             /\ calls' = calls
             /\ \A k \in BatchKinds :
                  persisted(cpBatch', k) =
                    persisted(hist.batchAtStart, k) + completedInRun(k, pc)
        /\ pc = "exit" => (pc' = "idle" /\ inflight' = {} /\ calls' = <<>>)
       ]_vars

\* the second metadata batch failed after two mint batches and one metadata
\* batch
C16_Witness ==
  /\ pc = "exit" /\ outcome = "Error" /\ hist.failedAt = "setMeta_wait"
  /\ Len(callsOf("mint")) = 2 /\ Len(callsOf("setMeta")) = 2
  /\ persisted(cpBatch, "mint") = 2 /\ persisted(cpBatch, "setMeta") = 1

\* the step of runWorkflow a position belongs to: 0 for loading and Validate,
\* 1..7 for the seven steps, 8 for Finalized
stepNo(p) ==
  CASE p \in {"checkPrev", "load", "verify"} -> 0
    [] p \in {"createClass", "cc_query", "cc_prompt", "cc_create"} -> 1
    [] p \in {"setClassMetadata", "cm_prompt", "cm_pin", "cm_set"} -> 2
    [] p = "secrets" -> 3
    [] p \in {"mint", "mint_loop", "mint_wait"} -> 4
    [] p \in {"pin", "pin_loop", "pin_wait"} -> 5
    [] p \in {"setMeta", "setMeta_loop", "setMeta_wait"} -> 6
    [] p \in {"funds", "funds_loop", "funds_wait"} -> 7
    [] p = "finalize" -> 8

checkpointLeft == cpClass.exists \/ cpBatch.exists \/ cpData.exists

\* C17: checkpoints are deleted and the table is copied to the output path
\* only in Finalized, which is entered only after the seven steps of a run
\* that is not a dry run completed in order without an error; a run that ends
\* with an error deletes no checkpoint, and after Finalized no class, batch or
\* data checkpoint is left.
C17_CheckpointsDeletedOnlyWhenFinalized ==
  [][/\ (\/ cpClass.exists /\ ~cpClass'.exists
         \/ cpBatch.exists /\ ~cpBatch'.exists
         \/ cpData.exists /\ ~cpData'.exists
         \/ outFile' # outFile) =>
           (pc = "finalize" /\ pc' = "exit" /\ outcome' = "ok")
     /\ (pc \notin {"idle", "exit"} /\ pc' \notin {"idle", "exit"} /\ pc' # pc) =>
           stepNo(pc') \in {stepNo(pc), stepNo(pc) + 1}
     /\ pc' = "finalize" =>
           (~dryRunMode' /\ outcome' = "none" /\ stepNo(pc) \in {7, 8})
     /\ pc' = "exit" /\ outcome' # "ok" =>
           (cpClass' = cpClass /\ cpBatch' = cpBatch /\ cpData' = cpData)
     /\ (pc = "finalize" /\ pc' = "exit" /\ outcome' = "ok") =>
           (outFile' /\ ~checkpointLeft')
    ]_vars

(* ---------------------- properties of the batch counters --------------- *)
\* the batched step of `kind` is running
inStep(kind) == pc \in {waitPc(kind), loopPc(kind)}

Finalizing == pc = "finalize" /\ pc' = "exit" /\ outcome' = "ok"

\* the invocation ended in Finalized
checkpointsDeleted == pc = "exit" /\ outcome = "ok" /\ ~dryRunMode

\* C18: the three batch counters are independent and never decrease before
\* Finalized, over any sequence of steps, failures and restarts: in memory,
\* in the batch record and as loaded from it; a batched step changes only its
\* own counter, in memory and in the batch record.
C18_CountersIndependentAndMonotonic ==
  [][\A k \in BatchKinds :
       /\ ~Finalizing => persisted(cpBatch', k) >= persisted(cpBatch, k)
       /\ pc' # "idle" => ctxBatch'[counterField(k)] >= ctxBatch[counterField(k)]
       /\ (pc = "load" /\ pc' = "verify") =>
            ctxBatch'[counterField(k)] = persisted(cpBatch, k)
       /\ (loaded /\ loaded' /\ ~checkpointsDeleted') =>
            ctxBatch'[counterField(k)] = persisted(cpBatch', k)
       /\ (inStep(k) /\ pc' # "idle") =>
            \A j \in BatchKinds \ {k} :
              /\ ctxBatch'[counterField(j)] = ctxBatch[counterField(j)]
              /\ persisted(cpBatch', j) = persisted(cpBatch, j)
       /\ (inStep(k) /\ pc' = "idle") => cpBatch' = cpBatch
    ]_vars

\* a restarted invocation sent its first funds batch after an earlier one had
\* stopped within the metadata batches
C18_Witness ==
  /\ runNo > 1
  /\ pc = "funds_loop"
  /\ persisted(hist.batchAtStart, "mint") = 2
  /\ persisted(hist.batchAtStart, "setMeta") = 1
  /\ ctxBatch = [lastMintBatch |-> 2, lastMetadataBatch |-> 2, lastBalanceTxBatch |-> 1]
  /\ cpBatch = batchCheckpoint(ctxBatch)

(* ----------------------- properties of the steps ----------------------- *)
\* InstancesMinted completed in this invocation
mintCompleted == pc \in {"pin", "pin_loop", "pin_wait", "setMeta", "setMeta_loop",
                         "setMeta_wait", "funds", "funds_loop", "funds_wait", "finalize"}

\* C19: after InstancesMinted completed, every row i of [startRecordNo,
\* endRecordNo) has the instance id i - startRecordNo, and that is the id the
\* row's address was minted with (the start instance id of its mint call plus
\* its place in the batch), also when the batches were minted by an earlier
\* invocation.
C19_InstanceIdsMatchMintedIds ==
  mintCompleted =>
    \A i \in Range(ctxData.startRecordNo, ctxData.endRecordNo) :
         /\ ctxData.records[i + 1].instanceId.t \in {"num", "digits"}
         /\ ctxData.records[i + 1].instanceId.v = i - ctxData.startRecordNo
         /\ {m \in hist.mintedAs : m.row = i} =
              {[row |-> i, id |-> ctxData.records[i + 1].instanceId.v]}

\* the second and third row were minted as 0 and 1 by an earlier invocation
C19_Witness ==
  /\ pc = "pin" /\ runNo > 1 /\ callsOf("mint") = <<>>
  /\ ctxData.startRecordNo = 1 /\ ctxData.endRecordNo = 3
  /\ hist.mintedAs = {[row |-> 1, id |-> 0], [row |-> 2, id |-> 1]}

\* ---------------------------------------------------------------------------
\* C20: generateGiftSecrets gives a fresh secret/address pair to exactly the
\* rows of [startRecordNo, endRecordNo) whose secret cell is empty and writes
\* both columns; every other row keeps its secret and its address; the data
\* checkpoint is written by the step, holding the whole processed range, when
\* at least one row changed, and is left untouched when none changed.
secretsStep == pc = "secrets" /\ pc' = "mint"

lackedSecret(r) ==
  /\ r - 1 >= ctxData.startRecordNo
  /\ r - 1 < ctxData.endRecordNo
  /\ ~Truthy(ctxData.records[r].secret)

stored(c) == IF Truthy(c) THEN c ELSE EmptyStr

C20_SecretsForRowsLackingOne ==
  [][secretsStep =>
       LET rows == 1..Len(ctxData.records)
           changed == {r \in rows : lackedSecret(r)}
           pair == {"secret", "address"}
       IN /\ Len(ctxData'.records) = Len(ctxData.records)
          /\ \A r \in changed :
               /\ \A c \in pair : Truthy(ctxData'.records[r][c])
               /\ \A q \in rows, c \in pair :
                    ctxData.records[q][c] \notin
                      {ctxData'.records[r].secret, ctxData'.records[r].address}
               /\ \A q \in changed \ {r} :
                    /\ ctxData'.records[q].secret # ctxData'.records[r].secret
                    /\ ctxData'.records[q].address # ctxData'.records[r].address
          /\ \A r \in rows \ changed : \A c \in pair :
               ctxData'.records[r][c] = ctxData.records[r][c]
          /\ changed # {} =>
               /\ pair \subseteq ctxData'.header
               /\ cpData'.exists
               /\ cpData'.header = ctxData'.header
               /\ Len(cpData'.rows) = Len(ctxData'.records)
               /\ \A r \in rows, c \in pair :
                    cpData'.rows[r][c] = stored(ctxData'.records[r][c])
          /\ changed = {} => ctxData' = ctxData /\ cpData' = cpData]_vars

C20_Witness ==
  /\ pc = "mint"
  /\ runNo = 1
  /\ \E kept, made, out \in 1..Len(ctxData.records) :
       /\ inRange(ctxData, kept - 1) /\ inRange(ctxData, made - 1)
       /\ ~inRange(ctxData, out - 1)
       /\ ctxData.records[kept].secret = env.src.rows[kept].secret
       /\ Truthy(env.src.rows[kept].secret)
       /\ ~Truthy(env.src.rows[made].secret)
       /\ Truthy(ctxData.records[made].secret)
       /\ cpData.exists
       /\ cpData.rows[made].secret = ctxData.records[made].secret
       /\ ~Truthy(env.src.rows[out].secret)
       /\ ~Truthy(ctxData.records[out].secret)

(* ------------------------ properties of ClassEnsured ------------------- *)
createIssued(cs) == \E k \in 1..Len(cs) : cs[k].kind = "create"

\* C21: in ClassEnsured with a configured class id that is not the
\* checkpointed one: a refused decision for an existing class ends the run
\* with a WorkflowError, no create-class submission and no write of the class
\* record; for a class that does not exist a create-class operation is
\* submitted, and the class record gets the class id only when that
\* submission succeeded (a failed one leaves the class record as it was).
C21_ClassPersistedAfterCreateOrAccept ==
  [][/\ (pc = "cc_prompt" /\ pc' = "exit") =>
          /\ outcome' = "WorkflowError"
          /\ ~createIssued(calls')
          /\ cpClass' = cpClass
     /\ (pc = "cc_query" /\ pc' \notin {"exit", "idle"}) =>
          /\ ledgerClass => (pc' = "cc_prompt" /\ ~createIssued(calls'))
          /\ ~ledgerClass =>
               /\ pc' = "cc_create"
               /\ \E c \in inflight' : c.kind = "create"
               /\ createIssued(calls')
          /\ cpClass' = cpClass
     /\ (pc = "cc_create" /\ pc' = "exit") => cpClass' = cpClass
     /\ (pc = "cc_create" /\ pc' = "idle") => cpClass' = cpClass
     /\ (pc = "cc_create" /\ pc' \notin {"exit", "idle"}) =>
          /\ ledgerClass'
          /\ cpClass'.exists
          /\ cpClass'.id = ToCsv(cfg.classId)
     /\ (pc \in {"createClass", "cc_query", "cc_prompt", "cc_create"}
           /\ cpClass' # cpClass) =>
          /\ pc \in {"cc_prompt", "cc_create"}
          /\ pc' = "setClassMetadata"
          /\ pc = "cc_prompt" => (ledgerClass /\ ~createIssued(calls))
    ]_vars

\* a create-class submission failed on a ledger without the class: the class
\* id is in memory only
C21_Witness ==
  /\ pc = "exit"
  /\ hist.failedAt = "cc_create"
  /\ createIssued(calls)
  /\ ~ledgerClass
  /\ ~cpClass.exists
  /\ ctxClass.id = cfg.classId

(* ------------------- termination of the batched steps ------------------ *)
\* the rows of the range from the start of batch lb on
rowsLeft(lb) == ctxData.endRecordNo - (ctxData.startRecordNo + lb * batchSize)

\* C22: for every configured batch size, row range and starting counter,
\* each batched step ends after finitely many external calls when every call
\* returns: a call is issued only while rows are left, every returned call
\* leaves fewer rows, and so a step issues at most as many calls as the range
\* has rows.
C22_BatchedStepsTerminate ==
  [][\A k \in BatchKinds :
       /\ (pc = loopPc(k) /\ pc' = waitPc(k)) =>
            /\ rowsLeft(lastBatch) > 0
            /\ Len(callsOf(k)') <= ctxData.endRecordNo - ctxData.startRecordNo
       /\ (pc = waitPc(k) /\ pc' = loopPc(k)) =>
            rowsLeft(lastBatch') < rowsLeft(lastBatch)
    ]_vars

(* ------------------- properties of the owner addresses ----------------- *)
ownerCalls == {c \in inflight : c.kind \in {"mint", "transfer"}}

\* C23: every owner address given to a mint or a funds-transfer call is, while
\* the call is out, a cell of the data checkpoint file, in a row of that file
\* that holds the row's secret as memory does, and a secret there is for every
\* address that is not empty: no instance and no funds go to an address
\* whose secret is not in the file.
C23_OwnerSecretsPersistedBeforeCall ==
  \A c \in ownerCalls : \A i \in ownerRows(ctxData, c) :
      /\ cpData.exists
      /\ {"secret", "address"} \subseteq cpData.header
      /\ i < Len(cpData.rows)
      /\ cpData.rows[i + 1].address = stored(ctxData.records[i + 1].address)
      /\ cpData.rows[i + 1].secret = stored(ctxData.records[i + 1].secret)
      /\ Truthy(ctxData.records[i + 1].address) => Truthy(cpData.rows[i + 1].secret)

\* C24: for every loaded table, one with partly filled secret or address
\* columns included, every owner address given to a mint or a funds-transfer
\* call is a non-empty string, for every row of the batch.
C24_OwnerAddressesNotEmpty ==
  \A c \in ownerCalls : \A i \in ownerRows(ctxData, c) :
      Truthy(ctxData.records[i + 1].address)

(* ------------------ properties of the class of a campaign -------------- *)
\* C25: over any sequence of failed and restarted invocations with the same
\* row range and batch size, the configured class id changing or not, when
\* the run reaches Finalized every row of [startRecordNo, endRecordNo) was in
\* a mint call that returned and that was issued for the class id the class
\* record holds at that moment.
C25_RangeMintedInCheckpointedClass ==
  pc = "finalize" =>
    /\ cpClass.exists
    /\ \A i \in Range(ctxData.startRecordNo, ctxData.endRecordNo) :
         [row |-> i, class |-> cpClass.id] \in hist.mintedFor

\* C26: over any sequence of failed and restarted invocations, the configured
\* class id changing or not, a class record file that holds a metadata CID
\* holds the id of a class for which a set-class-metadata operation
\* succeeded on the ledger.
C26_MetadataCidOfRecordedClass ==
  (cpClass.exists /\ Truthy(cpClass.metaCid)) => cpClass.id \in hist.metaSetFor

(* ------------------ the rows outside the configured range -------------- *)
outsideRange(d) == {r \in 1..Len(d.records) : ~inRange(d, r - 1)}

\* C27: every step of the pipeline leaves every field of the rows outside
\* [startRecordNo, endRecordNo) as it was, in memory and in the data
\* checkpoint file, values that the loaded table already held in the secret,
\* address, image-CID, metadata-CID and instance-id columns included (a field
\* that is absent and one that is the empty string count as the same value).
C27_RowsOutsideRangeUntouched ==
  [][(loaded /\ loaded') =>
       \A r \in outsideRange(ctxData) : \A c \in Cols :
          /\ ToCsv(ctxData'.records[r][c]) = ToCsv(ctxData.records[r][c])
          /\ (cpData.exists /\ cpData'.exists) =>
                ToCsv(cpData'.rows[r][c]) = ToCsv(cpData.rows[r][c])
    ]_vars

====
